---- MODULE Spec2Model ----
(***************************************************************************)
(* Model of src/node.js: the Task entity and the TaskManager (task list,   *)
(* filter, rendering of the visible list, fastest-task information and the *)
(* localStorage snapshot).                                                 *)
(*                                                                         *)
(* Values.  A JavaScript Date is [t |-> "Date", ms |-> n]; null is         *)
(* [t |-> "null"]; a number returned by getCompletionTime is               *)
(* [t |-> "number", v |-> n]; the ISO string JSON.stringify writes for a   *)
(* Date is [t |-> "string", iso |-> n].  A text is a sequence of           *)
(* one-character strings.  A task id, Date.now().toString(36) followed by  *)
(* Math.random().toString(36).substr(2), is the pair <<ms, random>>.       *)
(* The value of localStorage['tasks'] is modelled by what JSON.parse makes *)
(* of it: absent, the empty string, text that is not JSON, JSON that is    *)
(* not an array, or an array of items.                                     *)
(***************************************************************************)
EXTENDS Integers, Sequences, FiniteSets

VARIABLES tasks, currentFilter, storage, taskList,
          fastestTaskInfo, now, startup

vars == <<tasks, currentFilter, storage, taskList,
          fastestTaskInfo, now, startup>>

\* ---------------------------------------------------------------- bounds
MaxTasks == 2

MaxTicks == 2

TickMs == 1000

\* ------------------------------------------------------ program constants
MsPerSecond == 1000

SecondsPerMinute == 60

MinutesPerHour == 60

HoursPerDay == 24

\* ----------------------------------------------------------------- values
Null == [t |-> "null"]

Date(n) == [t |-> "Date", ms |-> n]

Number(n) == [t |-> "number", v |-> n]

\* sample results of Math.random()
RandVals == {1, 2}

Filters == {"all", "completed", "pending"}

InputValues == {<<>>, <<" ">>, <<" ", "a", " ">>}

\* ------------------------------------------------------------------- Task
\* new Task(text, completed, createdAt, completedAt), built at time ms with
\* Math.random() giving rnd: the id is always generated afresh.
Task(text, completed, createdAt, completedAt, ms, rnd) ==
    [id |-> <<ms, rnd>>, text |-> text, completed |-> completed,
     createdAt |-> createdAt, completedAt |-> completedAt]

getCompletionTime(task) ==
    IF ~task.completed \/ task.completedAt = Null
    THEN Null
    ELSE Number(task.completedAt.ms - task.createdAt.ms)

\* String.prototype.trim
RECURSIVE trimStart(_)
trimStart(s) ==
    IF s # <<>> /\ Head(s) = " " THEN trimStart(Tail(s)) ELSE s

RECURSIVE trimEnd(_)
trimEnd(s) ==
    IF s # <<>> /\ s[Len(s)] = " " THEN trimEnd(SubSeq(s, 1, Len(s) - 1)) ELSE s

trim(s) == trimEnd(trimStart(s))

\* ------------------------------------------------------------ persistence
DateToJSON(d) == IF d = Null THEN Null ELSE [t |-> "string", iso |-> d.ms]

TaskToJSON(task) ==
    [id |-> task.id, text |-> task.text, completed |-> task.completed,
     createdAt |-> DateToJSON(task.createdAt),
     completedAt |-> DateToJSON(task.completedAt)]

\* new Date(isoString)
ParseDate(j) == Date(j.iso)

Absent == [kind |-> "absent"]

EmptyString == [kind |-> "empty"]

NotJSON == [kind |-> "garbage"]

NotArray == [kind |-> "nonarray"]

JSONArray(items) == [kind |-> "array", items |-> items]

\* what localStorage may hold when the page is first opened
InitialStorage == {Absent, EmptyString, NotJSON, NotArray, JSONArray(<<>>),
                   JSONArray(<<Null>>)}

\* JSON.stringify(this.tasks)
RECURSIVE stringify(_)
stringify(ts) ==
    IF ts = <<>> THEN <<>> ELSE <<TaskToJSON(Head(ts))>> \o stringify(Tail(ts))

\* localStorage.setItem('tasks', JSON.stringify(this.tasks))
saveTasks(ts) == JSONArray(stringify(ts))

\* the callback of parsedTasks.map
revive(item, ms, rnd) ==
    Task(item.text, item.completed, ParseDate(item.createdAt),
         IF item.completedAt # Null THEN ParseDate(item.completedAt) ELSE Null,
         ms, rnd)

RECURSIVE reviveAll(_, _, _)
reviveAll(items, ms, rnds) ==
    IF items = <<>> THEN <<>>
    ELSE <<revive(Head(items), ms, Head(rnds))>> \o reviveAll(Tail(items), ms, Tail(rnds))

\* 'ok' with the new collection, 'kept' when there is nothing saved, 'throw'
\* when JSON.parse, .map or the callback raises.
loadTasks(st, ms, rnds) ==
    IF st.kind \in {"absent", "empty"} THEN [outcome |-> "kept"]
    ELSE IF st.kind \in {"garbage", "nonarray"} THEN [outcome |-> "throw"]
    ELSE IF \E i \in 1..Len(st.items) : st.items[i] = Null
         THEN [outcome |-> "throw"]
    ELSE [outcome |-> "ok", tasks |-> reviveAll(st.items, ms, rnds)]

\* -------------------------------------------------------------- rendering
\* the comparator with its operands exchanged: oldest first
compareCreatedAt_ascending(a, b) == a.createdAt.ms - b.createdAt.ms

compareCreatedAt(a, b) == b.createdAt.ms - a.createdAt.ms

\* Array.prototype.sort (stable): x goes before the first y it must precede
RECURSIVE insertSorted(_, _)
insertSorted(x, sorted) ==
    IF sorted = <<>> THEN <<x>>
    ELSE IF compareCreatedAt(x, Head(sorted)) < 0 THEN <<x>> \o sorted
    ELSE <<Head(sorted)>> \o insertSorted(x, Tail(sorted))

RECURSIVE sort(_)
sort(seq) ==
    IF seq = <<>> THEN <<>>
    ELSE insertSorted(seq[Len(seq)], sort(SubSeq(seq, 1, Len(seq) - 1)))

\* this.tasks.filter(task => task.completed)
RECURSIVE completedTasks(_)
completedTasks(ts) ==
    IF ts = <<>> THEN <<>>
    ELSE (IF Head(ts).completed THEN <<Head(ts)>> ELSE <<>>)
         \o completedTasks(Tail(ts))

\* this.tasks.filter(task => !task.completed)
RECURSIVE pendingTasks(_)
pendingTasks(ts) ==
    IF ts = <<>> THEN <<>>
    ELSE (IF ~Head(ts).completed THEN <<Head(ts)>> ELSE <<>>)
         \o pendingTasks(Tail(ts))

tasksToShow(ts, f) ==
    IF f = "completed" THEN completedTasks(ts)
    ELSE IF f = "pending" THEN pendingTasks(ts)
    ELSE ts

\* the list items renderTasks leaves in .task-list
renderTasks(ts, f) == sort(tasksToShow(ts, f))

formatDuration(d) ==
    IF d = Null \/ d.v = 0 THEN <<>>
    ELSE LET seconds == (d.v \div MsPerSecond) % SecondsPerMinute
             minutes == (d.v \div (MsPerSecond * SecondsPerMinute)) % MinutesPerHour
             hours == (d.v \div (MsPerSecond * SecondsPerMinute * MinutesPerHour)) % HoursPerDay
             days == d.v \div (MsPerSecond * SecondsPerMinute * MinutesPerHour * HoursPerDay)
         IN  (IF days > 0 THEN <<<<days, "d">>>> ELSE <<>>)
             \o (IF hours > 0 THEN <<<<hours, "h">>>> ELSE <<>>)
             \o (IF minutes > 0 THEN <<<<minutes, "m">>>> ELSE <<>>)
             \o (IF seconds > 0 THEN <<<<seconds, "s">>>> ELSE <<>>)

\* ----------------------------------------------------------- fastest task
\* the indexes in ts, from i on, of the tasks the filter of
\* updateFastestTaskInfo keeps
RECURSIVE completedIndexes(_, _)
completedIndexes(ts, i) ==
    IF i > Len(ts) THEN <<>>
    ELSE (IF ts[i].completed /\ getCompletionTime(ts[i]) # Null
          THEN <<i>> ELSE <<>>) \o completedIndexes(ts, i + 1)

\* the reduce test with > : keeps the slower task
prevIsSlower(prev, current) ==
    getCompletionTime(prev).v > getCompletionTime(current).v

\* the reduce test with <= : on a tie keeps prev
prevIsFasterOrEqual(prev, current) ==
    getCompletionTime(prev).v <= getCompletionTime(current).v

\* the test of the reduce callback: keep prev, else take current
prevIsFaster(prev, current) ==
    getCompletionTime(prev).v < getCompletionTime(current).v

RECURSIVE reduceFastest(_, _, _, _)
reduceFastest(ts, idx, k, prev) ==
    IF k > Len(idx) THEN prev
    ELSE reduceFastest(ts, idx, k + 1,
                       IF prevIsFaster(ts[prev], ts[idx[k]]) THEN prev ELSE idx[k])

\* index in ts of the task updateFastestTaskInfo reports, 0 when it reports none
fastestIndex(ts) ==
    LET idx == completedIndexes(ts, 1)
    IN  IF Len(idx) = 0 THEN 0 ELSE reduceFastest(ts, idx, 2, idx[1])

InitialHTML == [kind |-> "initial"]

NoCompletedTasks == [kind |-> "none"]

\* the text updateFastestTaskInfo writes into #fastest-task
updateFastestTaskInfo(ts) ==
    LET i == fastestIndex(ts)
    IN  IF i = 0 THEN NoCompletedTasks
        ELSE [kind |-> "fastest", text |-> ts[i].text,
              duration |-> formatDuration(getCompletionTime(ts[i]))]

\* ------------------------------------------------------------ TaskManager
\* a toggle that sets completedAt when completing and never clears it
toggleCompletion_keepsCompletedAt(task, ms) ==
    [task EXCEPT !.completed = ~task.completed,
                 !.completedAt = IF ~task.completed THEN Date(ms)
                                 ELSE task.completedAt]

\* task.completed = !task.completed; task.completedAt = completed ? new Date() : null
toggleCompletion(task, ms) ==
    [task EXCEPT !.completed = ~task.completed,
                 !.completedAt = IF ~task.completed THEN Date(ms) ELSE Null]

hasId(ts, taskId) == {i \in 1..Len(ts) : ts[i].id = taskId}

\* Array.prototype.find: index of the first task with the id, 0 when none
RECURSIVE findFrom(_, _, _)
findFrom(ts, taskId, i) ==
    IF i > Len(ts) THEN 0
    ELSE IF ts[i].id = taskId THEN i
    ELSE findFrom(ts, taskId, i + 1)

find(ts, taskId) == findFrom(ts, taskId, 1)

RandSeqs(st) ==
    IF st.kind = "array" THEN [1..Len(st.items) -> RandVals] ELSE {<<>>}

\* new TaskManager(): empty list, filter 'all', then loadTasks, renderTasks,
\* updateFastestTaskInfo.  The listeners are bound before loadTasks runs, so
\* when loadTasks throws the handlers still work on the empty list, and the
\* page keeps the list and the fastest-task text of its markup.
constructed(st, ms, rnds) ==
    LET r == loadTasks(st, ms, rnds)
        ts == IF r.outcome = "ok" THEN r.tasks ELSE <<>>
    IN  IF r.outcome = "throw"
        THEN [tasks |-> <<>>, taskList |-> <<>>,
              fastestTaskInfo |-> InitialHTML,
              startup |-> "threw"]
        ELSE [tasks |-> ts, taskList |-> renderTasks(ts, "all"),
              fastestTaskInfo |-> updateFastestTaskInfo(ts),
              startup |-> "done"]

Init ==
    /\ now = TickMs
    /\ storage \in InitialStorage
    /\ currentFilter = "all"
    /\ \E rnds \in RandSeqs(storage) :
         \E c \in {constructed(storage, now, rnds)} :
             /\ tasks = c.tasks
             /\ taskList = c.taskList
             /\ fastestTaskInfo = c.fastestTaskInfo
             /\ startup = c.startup

\* the page is opened again: DOMContentLoaded -> new TaskManager()
Reload ==
    /\ \E rnds \in RandSeqs(storage) :
         \E c \in {constructed(storage, now, rnds)} :
             /\ tasks' = c.tasks
             /\ taskList' = c.taskList
             /\ fastestTaskInfo' = c.fastestTaskInfo
             /\ startup' = c.startup
    /\ currentFilter' = "all"
    /\ UNCHANGED <<storage, now>>

\* addTask() when the input field holds value (what the user typed before the
\* click; the field is emptied after a task is added)
AddTask(value) ==
    IF trim(value) = <<>>
    THEN UNCHANGED vars
    ELSE /\ Len(tasks) < MaxTasks
         /\ UNCHANGED <<currentFilter, fastestTaskInfo, now, startup>>
         /\ \E rnd \in RandVals :
              \E ts \in {Append(tasks, Task(trim(value), FALSE, Date(now), Null,
                                             now, rnd))} :
                  /\ tasks' = ts
                  /\ storage' = saveTasks(ts)
                  /\ taskList' = renderTasks(ts, currentFilter)

ToggleTaskCompletion(taskId) ==
    \E i \in {find(tasks, taskId)} :
        IF i = 0
        THEN UNCHANGED vars
        ELSE /\ UNCHANGED <<currentFilter, now, startup>>
             /\ \E ts \in {[tasks EXCEPT ![i] = toggleCompletion(tasks[i], now)]} :
                  /\ tasks' = ts
                  /\ storage' = saveTasks(ts)
                  /\ taskList' = renderTasks(ts, currentFilter)
                  /\ fastestTaskInfo' = updateFastestTaskInfo(ts)

\* this.tasks.filter(task => task.id !== taskId)
RECURSIVE withoutId(_, _)
withoutId(ts, taskId) ==
    IF ts = <<>> THEN <<>>
    ELSE (IF Head(ts).id # taskId THEN <<Head(ts)>> ELSE <<>>)
         \o withoutId(Tail(ts), taskId)

DeleteTask(taskId) ==
    /\ UNCHANGED <<currentFilter, now, startup>>
    /\ \E ts \in {withoutId(tasks, taskId)} :
         /\ tasks' = ts
         /\ storage' = saveTasks(ts)
         /\ taskList' = renderTasks(ts, currentFilter)
         /\ fastestTaskInfo' = updateFastestTaskInfo(ts)

\* clearCompletedTasks without its saveTasks call
ClearCompletedTasks_noSave ==
    /\ UNCHANGED <<currentFilter, storage, fastestTaskInfo, now, startup>>
    /\ \E ts \in {pendingTasks(tasks)} :
         /\ tasks' = ts
         /\ taskList' = renderTasks(ts, currentFilter)

ClearCompletedTasks ==
    /\ UNCHANGED <<currentFilter, fastestTaskInfo, now, startup>>
    /\ \E ts \in {pendingTasks(tasks)} :
         /\ tasks' = ts
         /\ storage' = saveTasks(ts)
         /\ taskList' = renderTasks(ts, currentFilter)

FilterTasks(f) ==
    /\ currentFilter' = f
    /\ UNCHANGED <<tasks, storage, fastestTaskInfo, now, startup>>
    /\ taskList' = renderTasks(tasks, f)

\* the clock the Date.now() and new Date() calls read
Tick ==
    /\ now < MaxTicks * TickMs
    /\ now' = now + TickMs
    /\ UNCHANGED <<tasks, currentFilter, storage, taskList,
                   fastestTaskInfo, startup>>

\* the ids a caller may pass: those of the tasks on the page and one that no
\* task has
AbsentId == <<0, 0>>

IdsToTry == {tasks[i].id : i \in 1..Len(tasks)} \cup {AbsentId}

Next ==
    \/ Reload
    \/ \E value \in InputValues : AddTask(value)
    \/ \E taskId \in IdsToTry : ToggleTaskCompletion(taskId)
    \/ \E taskId \in IdsToTry : DeleteTask(taskId)
    \/ ClearCompletedTasks
    \/ \E f \in Filters : FilterTasks(f)
    \/ Tick

Spec == Init /\ [][Next]_vars

\* ================================================================ claims
\* the snapshot st is an array holding exactly the tasks ts, field by field
SnapshotHolds(st, ts) ==
    /\ st.kind = "array"
    /\ Len(st.items) = Len(ts)
    /\ \A i \in 1..Len(ts) :
         /\ st.items[i] # Null
         /\ st.items[i].id = ts[i].id
         /\ st.items[i].text = ts[i].text
         /\ st.items[i].completed = ts[i].completed
         /\ st.items[i].createdAt = [t |-> "string", iso |-> ts[i].createdAt.ms]
         /\ IF ts[i].completedAt = Null
            THEN st.items[i].completedAt = Null
            ELSE st.items[i].completedAt =
                     [t |-> "string", iso |-> ts[i].completedAt.ms]

Completed(ts) == {i \in 1..Len(ts) : ts[i].completed}

\* completedAt - createdAt of the i-th task of ts
Elapsed(ts, i) == ts[i].completedAt.ms - ts[i].createdAt.ms

NoOpAddTask == \E value \in InputValues : trim(value) = <<>> /\ AddTask(value)

EffectiveAddTask == \E value \in InputValues : trim(value) # <<>> /\ AddTask(value)

NoOpToggle ==
    \E taskId \in IdsToTry : hasId(tasks, taskId) = {} /\ ToggleTaskCompletion(taskId)

EffectiveToggle ==
    \E taskId \in IdsToTry : hasId(tasks, taskId) # {} /\ ToggleTaskCompletion(taskId)

NoOpDelete ==
    \E taskId \in IdsToTry : hasId(tasks, taskId) = {} /\ DeleteTask(taskId)

AnyDelete == \E taskId \in IdsToTry : DeleteTask(taskId)

\* C1: a reload of the page over a snapshot that holds the current collection
\* gives back the same collection: as many tasks, in the same order, each with
\* the same id, text, completed, createdAt and completedAt.
C1_RoundTrip ==
    [][(Reload /\ SnapshotHolds(storage, tasks)) => tasks' = tasks]_vars

\* C2: startup never fails: whatever localStorage holds, the constructor runs
\* to its end (load, then render).
C2_StartupCompletes == startup = "done"

\* C3: after addTask with non-empty text, toggleTaskCompletion of an existing
\* id, deleteTask and clearCompletedTasks, the snapshot holds exactly the
\* collection in memory (a step ends with such a snapshot or is none of these
\* operations).
C3_SnapshotAfterMutation ==
    [][\/ SnapshotHolds(storage', tasks')
       \/ ~(EffectiveAddTask \/ EffectiveToggle \/ AnyDelete \/ ClearCompletedTasks)
      ]_vars

C3_Witness ==
    /\ Len(tasks) = 2
    /\ tasks[1].completed
    /\ ~tasks[2].completed
    /\ SnapshotHolds(storage, tasks)

\* C4: every task has completedAt set exactly when completed is true, and its
\* completion time is defined exactly when completed is true.
C4_CompletedAtIffCompleted ==
    \A i \in 1..Len(tasks) :
        /\ (tasks[i].completedAt # Null) <=> tasks[i].completed
        /\ (getCompletionTime(tasks[i]) # Null) <=> tasks[i].completed

\* a task that was completed and is pending again, next to a completed task
\* that a reload re-created
C4_Witness ==
    /\ Len(tasks) = 2
    /\ tasks[1].completed /\ tasks[1].completedAt # Null
    /\ tasks[1].id[1] > tasks[1].createdAt.ms
    /\ ~tasks[2].completed /\ tasks[2].completedAt = Null
    /\ fastestTaskInfo # NoCompletedTasks

\* C5: the fastest-task query reports none exactly when no task is completed,
\* and otherwise a completed task whose completion time no completed task
\* undercuts.
C5_FastestIsMinimum ==
    LET f == fastestIndex(tasks)
    IN  /\ (f = 0) <=> (Completed(tasks) = {})
        /\ f # 0 =>
             /\ f \in Completed(tasks)
             /\ \A i \in Completed(tasks) : Elapsed(tasks, f) <= Elapsed(tasks, i)

C5_Witness ==
    /\ Len(tasks) = 2
    /\ Completed(tasks) = {1, 2}
    /\ Elapsed(tasks, 1) < Elapsed(tasks, 2)
    /\ fastestIndex(tasks) = 1

\* C6 as stated: among the completed tasks that share the minimum completion
\* time, the query reports the first in storage order.
C6_FirstOfTies ==
    LET f == fastestIndex(tasks)
    IN  f # 0 =>
          \A i \in Completed(tasks) :
              Elapsed(tasks, i) = Elapsed(tasks, f) => f <= i

\* C6 amended: among the completed tasks that share the minimum completion
\* time, the query reports the last in storage order.
C6_LastOfTies ==
    LET f == fastestIndex(tasks)
    IN  f # 0 =>
          \A i \in Completed(tasks) :
              Elapsed(tasks, i) = Elapsed(tasks, f) => i <= f

C6_Witness ==
    /\ Len(tasks) = 2
    /\ Completed(tasks) = {1, 2}
    /\ Elapsed(tasks, 1) = Elapsed(tasks, 2)
    /\ fastestIndex(tasks) = 2

\* C7: addTask with text that is empty after trimming, and toggleTaskCompletion
\* and deleteTask with an id no task has, leave the collection, the filter and
\* the snapshot as they were.
C7_NoOpsChangeNothing ==
    [][(NoOpAddTask \/ NoOpToggle \/ NoOpDelete)
         => UNCHANGED <<tasks, currentFilter, storage>>]_vars

\* C8: no two tasks of the collection share an id.
C8_UniqueIds ==
    \A i, j \in 1..Len(tasks) : i # j => tasks[i].id # tasks[j].id

Matches(task, f) ==
    /\ f = "completed" => task.completed
    /\ f = "pending" => ~task.completed

\* the list shown is the tasks of ts that match f, each as often as ts holds
\* it, newest first
Visible(shown, ts, f) ==
    /\ \A k \in 1..Len(shown) :
         /\ Matches(shown[k], f)
         /\ \E i \in 1..Len(ts) : ts[i] = shown[k]
    /\ \A i \in 1..Len(ts) :
         Cardinality({k \in 1..Len(shown) : shown[k] = ts[i]})
           = IF Matches(ts[i], f)
             THEN Cardinality({j \in 1..Len(ts) : ts[j] = ts[i]})
             ELSE 0
    /\ \A k, l \in 1..Len(shown) :
         k < l => shown[k].createdAt.ms >= shown[l].createdAt.ms

\* C9: for every collection and every filter, the list shown is exactly the
\* tasks matching the filter, newest first, and showing it leaves the stored
\* collection and its order as they were (a step keeps the collection or is
\* no filterTasks).
C9_VisibleTasks ==
    /\ []Visible(taskList, tasks, currentFilter)
    /\ [][tasks' = tasks \/ ~(\E f \in Filters : FilterTasks(f))]_vars

C9_Witness ==
    /\ currentFilter = "completed"
    /\ Len(tasks) = 2
    /\ tasks[1].completed /\ tasks[2].completed
    /\ tasks[1].createdAt.ms < tasks[2].createdAt.ms
    /\ taskList = <<tasks[2], tasks[1]>>

\* C10: once startup has completed, the fastest-task text always equals the
\* result of the fastest-task query over the current collection.
C10_FastestInfoCurrent ==
    startup = "done" => fastestTaskInfo = updateFastestTaskInfo(tasks)

====
